---- MODULE Spec2Model ----
(***************************************************************************)
(* State-machine model of src/counter.js: the page-analytics agent.        *)
(*                                                                         *)
(* Program state is the module-level `let` variables of the script plus    *)
(* the closure variables of setupScrollTracking.  The environment is the   *)
(* browser: clock, location, layout, scroll position, visibility, focus.   *)
(* Every listener registered by the script is one action; a handler runs   *)
(* to completion (single UI thread).  Handlers are written as operators    *)
(* that thread a record of the program variables, in statement order.      *)
(***************************************************************************)
EXTENDS Integers, Sequences, FiniteSets, TLC

\* ------------------------------------------------------------------ bounds
Paths      == {"/a", "/b"}      \* values of location.pathname
TickSteps  == {1000}            \* clock advances, in ms
MaxClock   == 2                 \* the clock stops at MaxClock * 1000 ms
MaxHeight  == 2                 \* layout heights range over 0..MaxHeight
MaxFrames  == 2                 \* no scroll is dispatched with MaxFrames callbacks pending
MaxPolls   == 11                \* the interval fires at most MaxPolls times per load
WinHeights == {1}               \* values of window.innerHeight

Heights == 0..MaxHeight

\* <<document.body.scrollHeight, document.documentElement.scrollHeight>>: a sample
\* of layouts with each total height once, the body the taller element for odd
\* heights and the root element the taller one for even heights
Layouts == {<<(IF h % 2 = 1 THEN h ELSE 0), (IF h % 2 = 0 THEN h ELSE 0)>> : h \in Heights}

\* ------------------------------------------------------- program constants
NULL         == -1              \* JavaScript null (engagementStart)
pageLoadTime == 0               \* performance.now() when the script is evaluated
Origin       == "https://site"  \* location.origin

referrer == "ref"

VARIABLES
    \* module-level state of the script
    currentPath, pageviewSent,
    documentHeight, maxScrollDepth,
    engagementStart, accumulatedEngagement, engagementTimerActive, engagementSent,
    \* closure state of setupScrollTracking
    ticking, attempts, intervalOn,
    \* listeners registered (init() has run)
    started,
    \* browser environment
    now, locPath, scrollY, innerHeight, bodyScrollHeight, rootScrollHeight,
    visible, focused, loaded, bodyReady,
    \* the embedding page, fixed while the page lives:
    \*   scriptEl  the attributes of the script element read by initConfig
    \*   host      location.hostname, navigator.webdriver, window.Cypress,
    \*             localStorage analytics_ignore, window.fetch and the global
    \*             that data-before-send names
    scriptEl, host,
    \* number of requestAnimationFrame callbacks scheduled and not yet run
    frames,
    \* observation: payloads passed to trackEvent by the last step
    sent,
    \* observation: bodies passed to fetch by the last step
    fetched,
    \* history variables
    lastHandler,                \* the function the last step ran as a listener
    pvCount, engCount,          \* trackEvent calls since currentPath was last assigned
    overflow,                   \* a previous value of currentPath saw an event twice
    activeTotal,                \* ms the accumulator was Active since the page view opened
    openedAt,                   \* clock value when the page view was opened
    openExtent,                 \* min(innerHeight, layout height) when the page view opened
    scrolled,                   \* since the page view opened: scrollTop was non-zero,
                                \* a scroll was dispatched, or a scroll sample ran
    polls                       \* firings of the setInterval callback since 'load'

progVars  == <<currentPath, pageviewSent, documentHeight, maxScrollDepth,
               engagementStart, accumulatedEngagement, engagementTimerActive,
               engagementSent>>
accVars   == <<engagementStart, accumulatedEngagement, engagementTimerActive>>
scrollVars == <<documentHeight, maxScrollDepth>>
timerVars == <<ticking, frames, attempts, intervalOn, polls>>
envVars   == <<now, locPath, scrollY, innerHeight, bodyScrollHeight, rootScrollHeight,
               visible, focused, loaded, bodyReady>>
hostVars  == <<scriptEl, host>>
histVars  == <<pvCount, engCount, overflow, activeTotal, openedAt,
               openExtent, scrolled>>
vars == <<progVars, timerVars, started, envVars, hostVars, sent, fetched,
          lastHandler, histVars>>

\* ----------------------------------------------------------------- helpers
Min(a, b) == IF a < b THEN a ELSE b
Max(a, b) == IF a > b THEN a ELSE b

\* Math.round(num / den * 100) for num >= 0, den > 0 (halves round up)
RoundPct(num, den) == (200 * num + den) \div (2 * den)

NoProps == [x \in {} |-> x]

\* getCustomProps: the data-usd-* attributes, or null (here the empty mapping,
\* which is the case the function turns into null) when there is none
getCustomProps(el) == el.props

\* initConfig: the configuration init() builds from the script element
config ==
    [uniqueId |-> "u1", siteId |-> 7,
     customProps |-> getCustomProps(scriptEl),
     beforeSend |-> scriptEl.beforeSend]

Count(seq, name) == Cardinality({k \in DOMAIN seq : seq[k].n = name})

\* The program variables as one record, with the bookkeeping of one handler run:
\*   out    payloads passed to trackEvent so far
\*   net    bodies passed to fetch so far
\*   mark   Len(out) at the assignment to currentPath (NULL: not assigned)
\*   opened trackPageview reset the trackers
\*   thrown an exception ended the handler
Prog ==
    [currentPath |-> currentPath, pageviewSent |-> pageviewSent,
     documentHeight |-> documentHeight, maxScrollDepth |-> maxScrollDepth,
     engagementStart |-> engagementStart,
     accumulatedEngagement |-> accumulatedEngagement,
     engagementTimerActive |-> engagementTimerActive,
     engagementSent |-> engagementSent,
     out |-> <<>>, net |-> <<>>, mark |-> NULL, opened |-> FALSE, thrown |-> FALSE]

\* ---------------------------------------------------------- scroll tracking
getCurrentUrl(loc) == Origin \o loc

getDocumentHeight == Max(bodyScrollHeight, rootScrollHeight)

getCurrentScrollDepth(s) == Min(scrollY + innerHeight, s.documentHeight)

getScrollPercentage_NoCap(s) ==
    IF s.documentHeight = 0 THEN 0
    ELSE RoundPct(s.maxScrollDepth, s.documentHeight)

getScrollPercentage(s) ==
    IF s.documentHeight = 0 THEN 0
    ELSE Min(RoundPct(s.maxScrollDepth, s.documentHeight), 100)

\* document.body is null until the parser has seen <body>: reading
\* document.body.scrollHeight then throws a TypeError.
resetScrollTracking_ZeroDepth(s) ==
    IF ~bodyReady THEN [s EXCEPT !.thrown = TRUE]
    ELSE [s EXCEPT !.documentHeight = getDocumentHeight, !.maxScrollDepth = 0]

resetScrollTracking(s) ==
    IF ~bodyReady THEN [s EXCEPT !.thrown = TRUE]
    ELSE LET s1 == [s EXCEPT !.documentHeight = getDocumentHeight]
         IN  [s1 EXCEPT !.maxScrollDepth = getCurrentScrollDepth(s1)]

\* ------------------------------------------------------ engagement tracking
startEngagement_NoGuard(s) ==
    [s EXCEPT !.engagementStart = now, !.engagementTimerActive = TRUE]

startEngagement(s) ==
    IF ~s.engagementTimerActive
    THEN [s EXCEPT !.engagementStart = now, !.engagementTimerActive = TRUE]
    ELSE s

pauseEngagement_Overwrite(s) ==
    IF s.engagementTimerActive
    THEN [s EXCEPT !.accumulatedEngagement = now - s.engagementStart,
                   !.engagementTimerActive = FALSE]
    ELSE s

pauseEngagement_Drop(s) ==
    IF s.engagementTimerActive
    THEN [s EXCEPT !.engagementTimerActive = FALSE]
    ELSE s

pauseEngagement(s) ==
    IF s.engagementTimerActive
    THEN [s EXCEPT !.accumulatedEngagement = @ + (now - s.engagementStart),
                   !.engagementTimerActive = FALSE]
    ELSE s

getEngagementTime(s) ==
    s.accumulatedEngagement +
        (IF s.engagementTimerActive THEN now - s.engagementStart ELSE 0)

resetEngagementTracking(s) ==
    [s EXCEPT !.engagementStart = NULL,
              !.accumulatedEngagement = 0,
              !.engagementTimerActive = FALSE]

handleVisibilityChange(s, vis) ==
    IF vis THEN startEngagement(s) ELSE pauseEngagement(s)

\* ------------------------------------------------------------ sending events
\* location.hostname is a sequence of dot-separated labels
Digits == {"0", "1", "127"}

\* /^localhost$|^127(\.\d+){0,2}\.\d+$/.test(location.hostname)
isLoopback(h) ==
    \/ h = <<"localhost">>
    \/ /\ Len(h) \in 2..4
       /\ h[1] = "127"
       /\ \A k \in 2..Len(h) : h[k] \in Digits

\* a localStorage read that throws is swallowed and tracking stays allowed
shouldTrack ==
    IF isLoopback(host.hostname) THEN FALSE
    ELSE IF host.webdriver \/ host.Cypress THEN FALSE
    ELSE IF host.ignore = "true" THEN FALSE
    ELSE TRUE

\* the host function named by data-before-send, when it returns
hookFn(p) == [hooked |-> "yes"] @@ p

\* the try block of sendRequest: host.hook is what window[config.beforeSend] is
\*   "undefined"     no such global        "function"  a function that returns
\*   "string"        a global that is no function
\*   "unresolvable"  reading the global throws
\*   "throws"        a function that throws
\* data.p = {} is assigned before fn is called, so it stays when fn throws
applyBeforeSend(data) ==
    IF config.beforeSend = "" THEN data
    ELSE IF host.hook \in {"undefined", "string", "unresolvable"} THEN data
    ELSE LET d1 == IF "p" \in DOMAIN data THEN data ELSE [p |-> NoProps] @@ data
         IN  IF host.hook = "throws" THEN d1
             ELSE [p |-> hookFn(d1.p)] @@ d1

sendRequest_NoGate(s, data) ==
    IF ~host.fetch THEN s
    ELSE [s EXCEPT !.net = Append(@, applyBeforeSend(data))]

sendRequest(s, data) ==
    IF ~host.fetch THEN s
    ELSE IF ~shouldTrack THEN s
    ELSE [s EXCEPT !.net = Append(@, applyBeforeSend(data))]

basePayload(loc) ==
    LET payload == [u |-> getCurrentUrl(loc), hu |-> config.uniqueId,
                    i |-> config.siteId, r |-> referrer]
    IN  IF config.customProps # NoProps
        THEN [p |-> config.customProps] @@ payload
        ELSE payload

\* { n: name, ...basePayload(), ...props }: later keys win
trackEvent(s, loc, name, props) ==
    LET data == props @@ basePayload(loc) @@ [n |-> name]
    IN  sendRequest([s EXCEPT !.out = Append(@, data)], data)

trackPageview_KeepsSent(s, loc) ==
    LET s1 == resetScrollTracking(s)
    IN  IF s1.thrown THEN s1
        ELSE LET s2 == resetEngagementTracking(s1)
                 s3 == startEngagement(s2)
                 s4 == trackEvent([s3 EXCEPT !.opened = TRUE], loc, "pageview", NoProps)
             IN  [s4 EXCEPT !.pageviewSent = TRUE]

trackPageview(s, loc) ==
    LET s1 == resetScrollTracking(s)
    IN  IF s1.thrown THEN s1
        ELSE LET s2 == resetEngagementTracking(s1)
                 s3 == startEngagement(s2)
                 s4 == trackEvent([s3 EXCEPT !.opened = TRUE], loc, "pageview", NoProps)
             IN  [s4 EXCEPT !.pageviewSent = TRUE, !.engagementSent = FALSE]

trackEngagementBody(s, loc) ==
    LET time == getEngagementTime(s)
    IN  IF time < 2000 /\ s.maxScrollDepth = 0 THEN s
        ELSE LET s1 == pauseEngagement(s)
                 s2 == trackEvent(s1, loc, "engagement",
                           [sd |-> getScrollPercentage(s1),
                            e  |-> time,
                            h  |-> 1,
                            tt |-> now - pageLoadTime])
                 s3 == resetEngagementTracking(s2)
             IN  [s3 EXCEPT !.engagementSent = TRUE]

trackEngagement_NoSentGuard(s, loc) ==
    IF ~s.pageviewSent THEN s ELSE trackEngagementBody(s, loc)

trackEngagement_NoPageviewGuard(s, loc) ==
    IF s.engagementSent THEN s ELSE trackEngagementBody(s, loc)

trackEngagement(s, loc) ==
    IF ~s.pageviewSent \/ s.engagementSent THEN s
    ELSE LET time == getEngagementTime(s)
         IN  IF time < 2000 /\ s.maxScrollDepth = 0 THEN s
             ELSE LET s1 == pauseEngagement(s)
                      s2 == trackEvent(s1, loc, "engagement",
                                [sd |-> getScrollPercentage(s1),
                                 e  |-> time,
                                 h  |-> 1,
                                 tt |-> now - pageLoadTime])
                      s3 == resetEngagementTracking(s2)
                  IN  [s3 EXCEPT !.engagementSent = TRUE]

\* ---------------------------------------------------------------- navigation
handleRouteChange_OpenFirst(s, loc) ==
    LET path == loc
    IN  IF path # s.currentPath
        THEN LET s1 == [s EXCEPT !.currentPath = path, !.mark = Len(s.out),
                                 !.pageviewSent = FALSE]
                 s2 == trackPageview(s1, loc)
             IN  IF s.currentPath # "" /\ ~s2.thrown THEN trackEngagement(s2, loc) ELSE s2
        ELSE s

handleRouteChange_NoGuard(s, loc) ==
    LET s1 == IF s.currentPath # "" THEN trackEngagement(s, loc) ELSE s
        s2 == [s1 EXCEPT !.currentPath = loc, !.mark = Len(s1.out),
                         !.pageviewSent = FALSE]
    IN  trackPageview(s2, loc)

handleRouteChange(s, loc) ==
    LET path == loc
    IN  IF path # s.currentPath
        THEN LET s1 == IF s.currentPath # "" THEN trackEngagement(s, loc) ELSE s
                 s2 == [s1 EXCEPT !.currentPath = path, !.mark = Len(s1.out),
                                  !.pageviewSent = FALSE]
             IN  trackPageview(s2, loc)
        ELSE s

\* ---------------------------------------------------------------------- init
init(s, loc) ==
    LET s1 == handleRouteChange(s, loc)
    IN  IF s1.thrown THEN s1
        ELSE IF visible THEN startEngagement(s1) ELSE s1

\* ------------------------------------------------------------- state changes
\* Store the result of a handler run and update the history variables.
Commit(s, label) ==
    /\ currentPath' = s.currentPath
    /\ pageviewSent' = s.pageviewSent
    /\ documentHeight' = s.documentHeight
    /\ maxScrollDepth' = s.maxScrollDepth
    /\ engagementStart' = s.engagementStart
    /\ accumulatedEngagement' = s.accumulatedEngagement
    /\ engagementTimerActive' = s.engagementTimerActive
    /\ engagementSent' = s.engagementSent
    /\ sent' = s.out
    /\ fetched' = s.net
    /\ lastHandler' = label
    /\ UNCHANGED hostVars
    /\ IF s.mark = NULL
       THEN /\ pvCount' = pvCount + Count(s.out, "pageview")
            /\ engCount' = engCount + Count(s.out, "engagement")
            /\ UNCHANGED overflow
       ELSE LET before == SubSeq(s.out, 1, s.mark)
                after  == SubSeq(s.out, s.mark + 1, Len(s.out))
            IN  /\ overflow' = (\/ overflow
                                 \/ pvCount + Count(before, "pageview") > 1
                                 \/ engCount + Count(before, "engagement") > 1)
                /\ pvCount' = Count(after, "pageview")
                /\ engCount' = Count(after, "engagement")
    /\ IF s.opened
       THEN /\ activeTotal' = 0
            /\ openedAt' = now
            /\ openExtent' = Min(innerHeight, getDocumentHeight)
            /\ scrolled' = (scrollY # 0)
       ELSE UNCHANGED <<activeTotal, openedAt, openExtent, scrolled>>

MaxScroll(h) == Max(h - innerHeight, 0)

\* The state when the script has been evaluated up to the call of init():
\* the module-level declarations, and the browser in some state.
Start ==
    /\ currentPath = ""
    /\ pageviewSent = FALSE
    /\ documentHeight = 0
    /\ maxScrollDepth = 0
    /\ engagementStart = NULL
    /\ accumulatedEngagement = 0
    /\ engagementTimerActive = FALSE
    /\ engagementSent = FALSE
    /\ ticking = FALSE
    /\ attempts = 0
    /\ intervalOn = FALSE
    /\ started = FALSE
    /\ now = 0
    /\ locPath \in Paths
    /\ innerHeight \in WinHeights
    /\ \E l \in Layouts : bodyScrollHeight = l[1] /\ rootScrollHeight = l[2]
    /\ scrollY = 0
    /\ sent = <<>>
    /\ lastHandler = "none"
    /\ pvCount = 0
    /\ engCount = 0
    /\ overflow = FALSE
    /\ activeTotal = 0
    /\ openedAt = 0
    /\ openExtent = 0
    /\ scrolled = FALSE
    /\ frames = 0
    /\ polls = 0
    /\ fetched = <<>>

\* a public site in an ordinary browser, the script element without data-usd-*
\* attributes and without data-before-send
PlainHost ==
    [hostname |-> <<"example", "com">>, webdriver |-> FALSE, Cypress |-> FALSE,
     ignore |-> "unset", fetch |-> TRUE, hook |-> "undefined"]

PlainScript == [props |-> NoProps, beforeSend |-> ""]

Plain ==
    /\ host = PlainHost
    /\ scriptEl = PlainScript

\* The script is evaluated after the document has loaded: 'load' never fires.
Init ==
    /\ Start
    /\ Plain
    /\ visible \in BOOLEAN
    /\ focused \in BOOLEAN
    /\ loaded = TRUE
    /\ bodyReady = TRUE

\* The script is evaluated before 'load', in a page that stays in the foreground.
InitLoad ==
    /\ Start
    /\ Plain
    /\ visible = TRUE
    /\ focused = TRUE
    /\ loaded = FALSE
    /\ bodyReady = TRUE

\* The script is evaluated from <head>, possibly before the parser has seen <body>.
InitEarly ==
    /\ Start
    /\ Plain
    /\ visible \in BOOLEAN
    /\ focused \in BOOLEAN
    /\ loaded = FALSE
    /\ bodyReady \in BOOLEAN

\* init(): registers every listener, then handleRouteChange and startEngagement
InitAgent ==
    /\ ~started
    /\ started' = TRUE
    /\ Commit(init(Prog, locPath), "init")
    /\ UNCHANGED <<timerVars, envVars>>

\* history.pushState / history.replaceState as wrapped by setupNavigation
HistoryCall ==
    /\ started
    /\ \E p \in Paths :
          /\ locPath' = p
          /\ Commit(handleRouteChange(Prog, p), "handleRouteChange")
    /\ UNCHANGED <<timerVars, started, now, scrollY, innerHeight, bodyScrollHeight,
                   rootScrollHeight, visible, focused, loaded, bodyReady>>

\* back/forward: the browser changes the location, then dispatches popstate
PopState ==
    /\ started
    /\ \E p \in Paths :
          /\ locPath' = p
          /\ Commit(handleRouteChange(Prog, p), "handleRouteChange")
    /\ UNCHANGED <<timerVars, started, now, scrollY, innerHeight, bodyScrollHeight,
                   rootScrollHeight, visible, focused, loaded, bodyReady>>

PageShow_Reopens ==
    /\ started
    /\ \E persisted \in BOOLEAN :
          Commit(IF persisted THEN trackPageview(Prog, locPath) ELSE Prog,
                 IF persisted THEN "handleRouteChange" ELSE "none")
    /\ UNCHANGED <<timerVars, started, envVars>>

PageShow ==
    /\ started
    /\ \E persisted \in BOOLEAN :
          Commit(IF persisted THEN handleRouteChange(Prog, locPath) ELSE Prog,
                 IF persisted THEN "handleRouteChange" ELSE "none")
    /\ UNCHANGED <<timerVars, started, envVars>>

BeforeUnload ==
    /\ started
    /\ Commit(trackEngagement(Prog, locPath), "trackEngagement")
    /\ UNCHANGED <<timerVars, started, envVars>>

PageHide ==
    /\ started
    /\ Commit(trackEngagement(Prog, locPath), "trackEngagement")
    /\ UNCHANGED <<timerVars, started, envVars>>

VisibilityChange ==
    /\ started
    /\ visible' = ~visible
    /\ Commit(handleVisibilityChange(Prog, ~visible), "handleVisibilityChange")
    /\ UNCHANGED <<timerVars, started, now, locPath, scrollY, innerHeight,
                   bodyScrollHeight, rootScrollHeight, focused, loaded, bodyReady>>

Focus ==
    /\ started
    /\ ~focused
    /\ focused' = TRUE
    /\ Commit(startEngagement(Prog), "startEngagement")
    /\ UNCHANGED <<timerVars, started, now, locPath, scrollY, innerHeight,
                   bodyScrollHeight, rootScrollHeight, visible, loaded, bodyReady>>

Blur ==
    /\ started
    /\ focused
    /\ focused' = FALSE
    /\ Commit(pauseEngagement(Prog), "pauseEngagement")
    /\ UNCHANGED <<timerVars, started, now, locPath, scrollY, innerHeight,
                   bodyScrollHeight, rootScrollHeight, visible, loaded, bodyReady>>

\* the 'scroll' listener: schedule one animation-frame callback unless one is
\* pending; t is the pair <<ticking, callbacks scheduled and not yet run>>
onScroll_NoFlag(t) == <<TRUE, t[2] + 1>>

onScroll(t) == IF ~t[1] THEN <<TRUE, t[2] + 1>> ELSE t

\* the user scrolls to another position; the browser dispatches 'scroll'
Scroll ==
    /\ started
    /\ \E y \in 0..MaxScroll(getDocumentHeight) :
          /\ y # scrollY
          /\ scrollY' = y
    /\ frames < MaxFrames
    /\ LET t == onScroll(<<ticking, frames>>)
       IN  ticking' = t[1] /\ frames' = t[2]
    /\ scrolled' = TRUE
    /\ sent' = <<>>
    /\ fetched' = <<>>
    /\ lastHandler' = "onScroll"
    /\ UNCHANGED <<progVars, attempts, intervalOn, polls, hostVars, started, now, locPath, innerHeight,
                   bodyScrollHeight, rootScrollHeight, visible, focused, loaded,
                   bodyReady, pvCount, engCount, overflow, activeTotal,
                   openedAt, openExtent>>

\* the requestAnimationFrame callback scheduled by the 'scroll' listener
sample(s) ==
    LET depth == getCurrentScrollDepth(s)
    IN  IF depth > s.maxScrollDepth THEN [s EXCEPT !.maxScrollDepth = depth] ELSE s

AnimationFrame ==
    /\ started
    /\ frames > 0
    /\ frames' = frames - 1
    /\ ticking' = FALSE
    /\ maxScrollDepth' = sample(Prog).maxScrollDepth
    /\ scrolled' = TRUE
    /\ sent' = <<>>
    /\ fetched' = <<>>
    /\ lastHandler' = "sample"
    /\ UNCHANGED <<currentPath, pageviewSent, documentHeight, accVars, engagementSent,
                   attempts, intervalOn, polls, hostVars, started, envVars, pvCount, engCount, overflow,
                   activeTotal, openedAt, openExtent>>

\* the layout changes height (content injected or removed); the browser clamps
\* the scroll position and dispatches 'scroll' when the position moved
LayoutChange ==
    /\ started
    /\ \E l \in Layouts :
          /\ l # <<bodyScrollHeight, rootScrollHeight>>
          /\ bodyScrollHeight' = l[1]
          /\ rootScrollHeight' = l[2]
          /\ scrollY' = Min(scrollY, MaxScroll(Max(l[1], l[2])))
    /\ frames < MaxFrames
    /\ LET t == IF scrollY' # scrollY THEN onScroll(<<ticking, frames>>)
                ELSE <<ticking, frames>>
       IN  ticking' = t[1] /\ frames' = t[2]
    /\ scrolled' = (scrolled \/ scrollY' # scrollY)
    /\ sent' = <<>>
    /\ fetched' = <<>>
    /\ lastHandler' = IF scrollY' # scrollY THEN "onScroll" ELSE "none"
    /\ UNCHANGED <<progVars, attempts, intervalOn, polls, hostVars, started, now, locPath, innerHeight,
                   visible, focused, loaded, bodyReady, pvCount, engCount, overflow,
                   activeTotal, openedAt, openExtent>>

\* the 'load' listener: recompute the height and start the repolling interval
Load ==
    /\ started
    /\ bodyReady
    /\ ~loaded
    /\ loaded' = TRUE
    /\ attempts' = 10
    /\ intervalOn' = TRUE
    /\ polls' = 0
    /\ Commit([Prog EXCEPT !.documentHeight = getDocumentHeight], "load")
    /\ UNCHANGED <<ticking, frames, started, now, locPath, scrollY, innerHeight,
                   bodyScrollHeight, rootScrollHeight, visible, focused, bodyReady>>

\* the setInterval callback: t is the pair <<attempts, interval still set>>
onInterval_NoClear(t) == <<t[1] - 1, t[2]>>

onInterval(t) == <<t[1] - 1, IF t[1] - 1 <= 0 THEN FALSE ELSE t[2]>>

\* one firing of the setInterval callback
IntervalTick ==
    /\ started
    /\ intervalOn
    /\ polls < MaxPolls
    /\ polls' = polls + 1
    /\ LET t == onInterval(<<attempts, intervalOn>>)
       IN  attempts' = t[1] /\ intervalOn' = t[2]
    /\ Commit([Prog EXCEPT !.documentHeight = getDocumentHeight], "interval")
    /\ UNCHANGED <<ticking, frames, started, envVars>>

\* the clock advances
Tick ==
    /\ started
    /\ \E d \in TickSteps :
          /\ now + d <= MaxClock * 1000
          /\ now' = now + d
          /\ activeTotal' = activeTotal + (IF engagementTimerActive THEN d ELSE 0)
    /\ sent' = <<>>
    /\ fetched' = <<>>
    /\ lastHandler' = "none"
    /\ UNCHANGED <<progVars, timerVars, hostVars, started, locPath, scrollY, innerHeight,
                   bodyScrollHeight, rootScrollHeight, visible, focused, loaded,
                   bodyReady, pvCount, engCount, overflow, openedAt,
                   openExtent, scrolled>>

\* the parser reaches <body>
BodyParsed ==
    /\ started
    /\ ~bodyReady
    /\ bodyReady' = TRUE
    /\ sent' = <<>>
    /\ fetched' = <<>>
    /\ lastHandler' = "none"
    /\ UNCHANGED <<progVars, timerVars, hostVars, started, now, locPath, scrollY, innerHeight,
                   bodyScrollHeight, rootScrollHeight, visible, focused, loaded,
                   histVars>>

Next ==
    \/ InitAgent
    \/ HistoryCall
    \/ PopState
    \/ PageShow
    \/ BeforeUnload
    \/ PageHide
    \/ VisibilityChange
    \/ Focus
    \/ Blur
    \/ Scroll
    \/ AnimationFrame
    \/ LayoutChange
    \/ Tick

Spec == Init /\ [][Next]_vars

NextLoad ==
    \/ InitAgent
    \/ HistoryCall
    \/ PopState
    \/ PageShow
    \/ BeforeUnload
    \/ PageHide
    \/ Scroll
    \/ AnimationFrame
    \/ LayoutChange
    \/ Load
    \/ IntervalTick
    \/ Tick

SpecLoad == InitLoad /\ [][NextLoad]_vars

NextEarly ==
    \/ Next
    \/ BodyParsed

SpecEarly == InitEarly /\ [][NextEarly]_vars

\* The script is evaluated after load in a page that stays in the foreground,
\* where the browser runs every requested animation-frame callback.
InitScroll ==
    /\ Start
    /\ Plain
    /\ visible = TRUE
    /\ focused = TRUE
    /\ loaded = TRUE
    /\ bodyReady = TRUE

NextScroll ==
    \/ InitAgent
    \/ HistoryCall
    \/ Scroll
    \/ AnimationFrame
    \/ LayoutChange

SpecScroll == InitScroll /\ [][NextScroll]_vars /\ WF_vars(AnimationFrame)

\* The height re-polling after 'load'; the browser fires a set interval again
\* and again until it is cleared.
NextTimer ==
    \/ InitAgent
    \/ HistoryCall
    \/ LayoutChange
    \/ Load
    \/ IntervalTick

SpecTimer == InitLoad /\ [][NextTimer]_vars /\ WF_vars(IntervalTick)

\* The scroll share under re-polling: scrolling, layout changes, the load-time
\* and interval recomputations, and the two ways a page view is closed.
NextPoll ==
    \/ NextTimer
    \/ Scroll
    \/ AnimationFrame
    \/ BeforeUnload
    \/ Tick

SpecPoll == InitLoad /\ [][NextPoll]_vars

\* The embedding pages and script elements the sending path is checked on
Hostnames ==
    {<<"example", "com">>, <<"localhost">>, <<"127", "0", "0", "1">>, <<"127", "1">>,
     <<"127", "example">>, <<"localhost", "example">>}

Hooks == {"undefined", "string", "unresolvable", "function", "throws"}

HostCases ==
    {[PlainHost EXCEPT !.hostname = h] : h \in Hostnames}
    \cup {[PlainHost EXCEPT !.webdriver = TRUE], [PlainHost EXCEPT !.Cypress = TRUE],
          [PlainHost EXCEPT !.fetch = FALSE]}
    \cup {[PlainHost EXCEPT !.ignore = v] : v \in {"true", "false", "throws"}}
    \cup {[PlainHost EXCEPT !.hook = k] : k \in Hooks}

ScriptCases ==
    {[props |-> q, beforeSend |-> b] : q \in {NoProps, [plan |-> "pro"]},
                                      b \in {"", "hook"}}

InitSend ==
    /\ Start
    /\ host \in HostCases
    /\ scriptEl \in ScriptCases
    /\ visible = TRUE
    /\ focused = TRUE
    /\ loaded = TRUE
    /\ bodyReady = TRUE

NextSend ==
    \/ InitAgent
    \/ HistoryCall
    \/ BeforeUnload
    \/ Tick

SpecSend == InitSend /\ [][NextSend]_vars

\* ===================================================================== claims
Engagements(seq) == {k \in DOMAIN seq : seq[k].n = "engagement"}
Pageviews(seq)   == {k \in DOMAIN seq : seq[k].n = "pageview"}

\* getEngagementTime() observed in the current state
EngagedNow == getEngagementTime(Prog)

\* C1: between two assignments of currentPath, trackEvent is called at most once
\* with 'pageview' and at most once with 'engagement', under every sequence of
\* lifecycle signals; a repeated trackEngagement emits no second engagement.
C1_AtMostOncePerPath ==
    pvCount <= 1 /\ engCount <= 1 /\ ~overflow

\* a second trackEngagement ran after the engagement of this path was emitted
C1_Witness ==
    /\ lastHandler = "trackEngagement"
    /\ sent = <<>>
    /\ pvCount = 1
    /\ engCount = 1

\* C2: on a route change from a non-empty path A to another path B the closing
\* step for A completes before the opening step for B: every engagement of that
\* step precedes the pageview for B, which is emitted last, and the engagement's
\* e and sd are the values of the trackers before they are reset for B.
C2_CloseBeforeOpen ==
    [][ (/\ lastHandler' = "handleRouteChange"
         /\ currentPath # ""
         /\ currentPath' # currentPath)
        => /\ Len(sent') >= 1
           /\ sent'[Len(sent')].n = "pageview"
           /\ sent'[Len(sent')].u = getCurrentUrl(currentPath')
           /\ \A k \in 1..(Len(sent') - 1) :
                /\ sent'[k].n = "engagement"
                /\ sent'[k].e = accumulatedEngagement +
                      (IF engagementTimerActive THEN now - engagementStart ELSE 0)
                /\ sent'[k].sd = (IF documentHeight = 0 THEN 0
                                  ELSE Min(RoundPct(maxScrollDepth, documentHeight), 100))
      ]_vars

\* a route change emitted an engagement with engaged time, then the pageview
C2_Witness ==
    /\ lastHandler = "handleRouteChange"
    /\ Len(sent) = 2
    /\ sent[1].n = "engagement"
    /\ sent[1].e > 0
    /\ sent[2].n = "pageview"

\* C3: a navigation signal (pushState, replaceState, popstate, pageshow from
\* cache) that finds location.pathname equal to currentPath emits nothing and
\* leaves currentPath, pageviewSent, engagementSent, the scroll state and the
\* engagement state unchanged.
C3_SamePathIdempotent ==
    [][ (lastHandler' = "handleRouteChange" /\ locPath' = currentPath)
        => (sent' = <<>> /\ UNCHANGED progVars)
      ]_vars

\* a navigation signal arrived on the open page view and did nothing
C3_Witness ==
    /\ lastHandler = "handleRouteChange"
    /\ locPath = currentPath
    /\ sent = <<>>
    /\ pageviewSent
    /\ EngagedNow > 0

C5_BounceSuppressed ==
    [][ (/\ lastHandler' = "handleRouteChange"
         /\ currentPath # ""
         /\ locPath' # currentPath
         /\ pageviewSent
         /\ now - openedAt < 2000
         /\ ~scrolled)
        => Engagements(sent') = {}
      ]_vars

C7_EngagedTimeIsActiveTime ==
    [][ \A k \in Engagements(sent') :
           sent'[k].e = activeTotal /\ sent'[k].h = 1
      ]_vars

\* an engagement of a page view that was paused for part of its time
C7_Witness ==
    /\ lastHandler = "trackEngagement"
    /\ Len(sent) = 1
    /\ sent[1].n = "engagement"
    /\ sent[1].e > 0
    /\ sent[1].e < now - openedAt

\* C8: over steps that start or pause the accumulator or advance the clock,
\* without a reset, getEngagementTime() never decreases.
C8_ElapsedMonotone ==
    [][ lastHandler' \notin {"init", "handleRouteChange", "trackEngagement"}
        => EngagedNow' >= EngagedNow
      ]_vars

\* paused once, resumed, and the clock has advanced since
C8_Witness ==
    /\ accumulatedEngagement > 0
    /\ engagementTimerActive
    /\ now > engagementStart
    /\ EngagedNow = accumulatedEngagement + (now - engagementStart)

\* C9: startEngagement on an Active accumulator and pauseEngagement on a Paused
\* one change none of engagementStart, accumulatedEngagement,
\* engagementTimerActive.
C9_StartPauseIdempotent ==
    [][ (\/ /\ engagementTimerActive
            /\ \/ lastHandler' = "startEngagement"
               \/ lastHandler' = "handleVisibilityChange" /\ visible'
         \/ /\ ~engagementTimerActive
            /\ \/ lastHandler' = "pauseEngagement"
               \/ lastHandler' = "handleVisibilityChange" /\ ~visible')
        => UNCHANGED accVars
      ]_vars

\* startEngagement ran on an accumulator that had been Active for a while
C9_Witness ==
    /\ lastHandler = "startEngagement"
    /\ engagementTimerActive
    /\ engagementStart < now

\* C10: trackEngagement called while pageviewSent is false emits nothing and
\* changes no state.
C10_NoPageviewNoOp ==
    [][ (lastHandler' = "trackEngagement" /\ ~pageviewSent)
        => (sent' = <<>> /\ UNCHANGED progVars)
      ]_vars

\* trackEngagement ran without a pageview, on trackers past the noise filter
C10_Witness ==
    /\ lastHandler = "trackEngagement"
    /\ ~pageviewSent
    /\ EngagedNow >= 2000

\* C12: in every reachable state the accumulator's active flag is true exactly
\* when its start timestamp is set (engagementTimerActive <=> engagementStart
\* is not null); pauseEngagement clears the timestamp.
C12_ActiveIffStartSet ==
    engagementTimerActive <=> (engagementStart # NULL)

\* C13: in every reachable state maxScrollDepth <= documentHeight, under any
\* interleaving of resets, scroll samples and the load-time and interval
\* recomputations of documentHeight.
C13_DepthWithinHeight ==
    maxScrollDepth <= documentHeight

\* r is Math.round(num / den): the integer nearest to the quotient, halves up
IsRounded(r, num, den) ==
    /\ 2 * den * r <= 2 * num + den
    /\ 2 * num + den < 2 * den * (r + 1)

\* C14: every emitted engagement carries an integer sd in 0..100 that equals
\* round(maxScrollDepth / documentHeight * 100) capped at 100, and 0 when
\* documentHeight is 0, for the values the trackers hold when it is emitted.
C14_ScrollShareInRange ==
    [][ \A k \in Engagements(sent') :
           /\ sent'[k].sd \in 0..100
           /\ documentHeight = 0 => sent'[k].sd = 0
           /\ (documentHeight # 0 /\ sent'[k].sd < 100) =>
                 IsRounded(sent'[k].sd, 100 * maxScrollDepth, documentHeight)
           /\ (documentHeight # 0 /\ sent'[k].sd = 100) =>
                 \E r \in 100..(100 * maxScrollDepth) :
                    IsRounded(r, 100 * maxScrollDepth, documentHeight) ]_vars

\* an engagement was emitted after a re-poll left the high-water mark above the
\* document height: the rounded share exceeds 100 and the cap applies
C14_Witness ==
    /\ lastHandler = "trackEngagement"
    /\ Engagements(sent) # {}
    /\ documentHeight > 0
    /\ maxScrollDepth > documentHeight
    /\ sent[1].sd = 100

\* C16: the accumulator is Active only in states where the page is visible and
\* the window has focus, under any interleaving of visibilitychange, focus,
\* blur and page-view opening.
C16_ActiveOnlyInForeground ==
    engagementTimerActive => (visible /\ focused)

\* C17: on a route change from path A to another path B the engagement emitted
\* for the page being left carries the URL of A in its u field.
C17_EngagementCarriesLeftUrl ==
    [][ (/\ lastHandler' = "handleRouteChange"
         /\ currentPath # ""
         /\ locPath' # currentPath)
        => \A k \in Engagements(sent') : sent'[k].u = getCurrentUrl(currentPath) ]_vars

\* C20: once the engagement of a page view is emitted, engagementSent stays true
\* and no event is emitted until handleRouteChange runs with a location path
\* different from currentPath, whatever other signals arrive on the same path.
C20_SilentUntilNewPath ==
    [][ (/\ engagementSent
         /\ ~(lastHandler' = "handleRouteChange" /\ locPath' # currentPath))
        => (engagementSent' /\ sent' = <<>>) ]_vars

\* a same-path handleRouteChange (history call, popstate or a pageshow from the
\* cache) ran on a page view whose engagement was already emitted
C20_Witness ==
    /\ lastHandler = "handleRouteChange"
    /\ engagementSent
    /\ sent = <<>>
    /\ pvCount = 1
    /\ engCount = 1

\* C18: at most one sampling callback is outstanding at any time, whatever the
\* number and order of scroll signals and animation frames, and every scroll
\* signal is followed by a sampling pass that runs after it.
C18_SamplingCoalesced ==
    /\ [](frames <= 1)
    /\ [](ticking <=> frames = 1)
    /\ ((lastHandler = "onScroll") ~> (lastHandler = "sample"))

\* a second scroll signal arrived while the callback of the first was pending:
\* the position is back at 0 and no sample has seen the position in between
C18_Witness ==
    /\ lastHandler = "onScroll"
    /\ ticking
    /\ frames = 1
    /\ scrollY = 0
    /\ documentHeight = 2
    /\ maxScrollDepth = 1

\* C19: after 'load' the interval recomputes documentHeight on at most 10 ticks
\* and clears itself on the tenth; a cleared interval never fires again, and
\* under fair ticking the interval is eventually cleared.
C19_RepollBounded ==
    /\ [](polls <= 10)
    /\ [](loaded => (intervalOn <=> polls < 10))
    /\ [][ (loaded /\ ~intervalOn) => (~intervalOn' /\ lastHandler' # "interval") ]_vars
    /\ (intervalOn ~> ~intervalOn)

\* the tenth tick has run and cleared the interval
C19_Witness ==
    /\ loaded
    /\ polls = 10
    /\ attempts = 0
    /\ ~intervalOn

\* C11: whenever shouldTrack() is false (loop-back hostname, webdriver or
\* Cypress flag, opt-out value 'true') no step calls fetch, while every
\* emission still advances the lifecycle state: a pageview leaves pageviewSent
\* set, engagementSent clear and the accumulator running on the new path, an
\* engagement that closes the page view leaves engagementSent set and the
\* accumulator reset.
C11_GateBlocksOnlyFetch ==
    [][ ~shouldTrack =>
          /\ fetched' = <<>>
          /\ Pageviews(sent') # {} =>
                /\ pageviewSent' /\ ~engagementSent'
                /\ currentPath' = locPath'
                /\ engagementTimerActive' /\ accumulatedEngagement' = 0
          /\ (Engagements(sent') # {} /\ Pageviews(sent') = {}) =>
                /\ engagementSent'
                /\ ~engagementTimerActive' /\ accumulatedEngagement' = 0 ]_vars

\* on a page where the gate is closed a page view was opened and closed
C11_Witness ==
    /\ ~shouldTrack
    /\ lastHandler = "trackEngagement"
    /\ Engagements(sent) # {}
    /\ pageviewSent
    /\ engagementSent
    /\ fetched = <<>>

\* C15: when data-before-send names a function and invoking it throws, every
\* event is still passed to fetch and the body is the payload that is sent when
\* no hook is configured, with and without custom properties.
C15_FailedHookLeavesPayload ==
    [][ (config.beforeSend # "" /\ host.hook = "throws")
        => fetched' = sent' ]_vars

====
